---- MODULE Spec2Model ----
(***************************************************************************)
(* A model of winml/lib/Api.Core/WinMLAdapter.cpp: the WinML adapter over  *)
(* the ONNX Runtime session, model-proto and IO-binding objects.           *)
(*                                                                         *)
(* Strings that the code passes through c_str() (strcmp, printf "%s" and   *)
(* "%ls") are sequences of character codes, 0 being the NUL character, so  *)
(* that what a C string keeps of a std::string is computed, not assumed.   *)
(* Strings the code only compares or copies as std::string are TLA+        *)
(* strings.                                                                *)
(***************************************************************************)
EXTENDS Integers, Sequences, FiniteSets, TLC

VARIABLES
    \* EnsureModelDeviceCompatibility(model, p_model_proto, is_float16_supported)
    model,                  \* winml::LearningModel: InputFeatures, OutputFeatures
    p_model_proto,          \* what p_model_proto->get() yields: a ModelProto or NULL
    is_float16_supported,
    compat,                 \* outcome of the call, NotCalled before it
    \* CreateModelInfo(model_proto): the ModelInfo built by ModelInfo::Initialize
    model_info,
    \* OverrideSchemaInferenceFunctions: the function-local static once_flag
    schema_override_once_flag,
    pc,                     \* where each thread is inside the call
    calls,                  \* calls each thread has started
    executions,             \* runs of SchemaInferenceOverrider::OverrideSchemaInferenceFunctions
    returned,               \* HRESULTs each thread has been returned
    \* ModelProto wrappers, sessions and the onnx::ModelProto objects they own
    structures,             \* every onnx::ModelProto made by new: content, freed or not
    wrappers,               \* ModelProto::model_proto_ of every wrapper made
    sessions,               \* the engine session behind every InferenceSession
    caller,                 \* structures handed to a caller by detach()
    last,                   \* the last call made and what it gave back
    released,               \* history: the wrappers detach() has been called on
    ok_loads,               \* history: LoadModel calls per session that returned S_OK
    crashed,                \* the process has faulted
    \* class IOBinding
    binding_,               \* the engine's IOBinding: output names, values, their storage
    outputs_weak_,          \* pointers to the engine's output values
    passed,                 \* history: the last ort_value bound to each output name
    bind_last               \* the last call made on the IOBinding

compatVars == <<model, p_model_proto, is_float16_supported, compat>>
infoVars == <<model_info>>
onceVars == <<schema_override_once_flag, pc, calls, executions, returned>>
ownVars == <<structures, wrappers, sessions, caller, last, released, ok_loads, crashed>>
bindVars == <<binding_, outputs_weak_, passed, bind_last>>
vars == <<compatVars, infoVars, onceVars, ownVars, bindVars>>

NULL == [null |-> TRUE]

(***************************************************************************)
(* C strings                                                               *)
(***************************************************************************)
NUL == 0

\* std::string::c_str() read as a C string: the characters before the first NUL.
RECURSIVE CStr(_)
CStr(s) ==
    IF s = <<>> \/ Head(s) = NUL THEN <<>> ELSE <<Head(s)>> \o CStr(Tail(s))

\* std::strcmp(a, b) == 0
StrcmpEqual(a, b) == CStr(a) = CStr(b)

\* The least of a set of positions of a sequence, 0 when the set is empty: the
\* element at which a for loop over the sequence first takes its branch.
First(positions) ==
    IF positions = {} THEN 0
    ELSE CHOOSE i \in positions : \A j \in positions : i <= j

(***************************************************************************)
(* onnx::ModelProto, as far as this file reads it                          *)
(***************************************************************************)
\* An optional protobuf field: has_x() and x(); x() of an unset field is the default.
Unset(default) == [has |-> FALSE, val |-> default]
Set(v) == [has |-> TRUE, val |-> v]

TensorProto_DataType_FLOAT16 == 10

EmptyGraph ==
    [name |-> Unset(""), node |-> <<>>, initializer |-> <<>>,
     input |-> <<>>, output |-> <<>>]

\* A ModelProto with nothing set; graph() of a ModelProto without a graph is
\* the default (empty) GraphProto instance.
EmptyModelProto ==
    [producer_name |-> Unset(""), domain |-> Unset(""), doc_string |-> Unset(""),
     model_version |-> Unset(0), metadata_props |-> <<>>,
     has_graph |-> FALSE, graph |-> EmptyGraph]

(***************************************************************************)
(* WinMLAdapter::EnsureModelDeviceCompatibility                            *)
(***************************************************************************)
S_OK == [hr |-> "S_OK", thrown |-> FALSE, kind |-> "none", name |-> <<>>]
NotCalled == [hr |-> "not called", thrown |-> FALSE, kind |-> "none", name |-> <<>>]

\* THROW_HR_IF_MSG(DXGI_ERROR_UNSUPPORTED, ..., "... (%s) ...", name.c_str()):
\* the exception carries the HRESULT and the message, whose text names the kind
\* of element and prints the name as a C string.
Unsupported(kind, name) ==
    [hr |-> "DXGI_ERROR_UNSUPPORTED", thrown |-> TRUE, kind |-> kind, name |-> CStr(name)]

\* A mutant of IsFeatureDescriptorFp16: the image branch answers for every descriptor.
IsFeatureDescriptorFp16_ImageOnly(descriptor) ==
    descriptor.iface = "image" /\ descriptor.TensorKind = "Float16"

IsFeatureDescriptorFp16(descriptor) ==
    IF descriptor.iface = "image" THEN descriptor.TensorKind = "Float16"
    ELSE IF descriptor.iface = "tensor" THEN descriptor.TensorKind = "Float16"
    ELSE FALSE

\* A mutant of IsCastNode: the operator domain is not looked at.
IsCastNode_AnyDomain(node) == node.op_type = "Cast"

\* node.op_type() == "Cast" && node.domain().empty()
IsCastNode(node) == node.op_type = "Cast" /\ node.domain = ""

\* The attribute at which the inner loop throws.
IsToFloat16(attribute) ==
    attribute.name = "to" /\ attribute.i = TensorProto_DataType_FLOAT16

CastNodeThrows(node) ==
    IsCastNode(node)
      /\ First({j \in DOMAIN node.attribute : IsToFloat16(node.attribute[j])}) # 0

InitializerThrows(initializer) ==
    initializer.data_type = TensorProto_DataType_FLOAT16

\* A mutant of EnsureModelDeviceCompatibility: the initializers are scanned
\* before the nodes, the order the comments of the function give.
EnsureModelDeviceCompatibility_InitializersFirst(m, proto, float16) ==
    IF float16 THEN S_OK
    ELSE
      LET graph == proto.graph
          i == First({k \in DOMAIN m.InputFeatures :
                        IsFeatureDescriptorFp16(m.InputFeatures[k])})
          n == First({k \in DOMAIN graph.node : CastNodeThrows(graph.node[k])})
          t == First({k \in DOMAIN graph.initializer :
                        InitializerThrows(graph.initializer[k])})
          o == First({k \in DOMAIN m.OutputFeatures :
                        IsFeatureDescriptorFp16(m.OutputFeatures[k])})
      IN  IF i # 0 THEN Unsupported("input", m.InputFeatures[i].Name)
          ELSE IF t # 0 THEN Unsupported("initializer", graph.initializer[t].name)
          ELSE IF n # 0 THEN Unsupported("Cast Op", graph.node[n].name)
          ELSE IF o # 0 THEN Unsupported("output", m.OutputFeatures[o].Name)
          ELSE S_OK

\* The four loops in order; the first THROW_HR_IF_MSG whose condition holds
\* ends the call.
EnsureModelDeviceCompatibility(m, proto, float16) ==
    IF float16 THEN S_OK
    ELSE
      LET graph == proto.graph
          i == First({k \in DOMAIN m.InputFeatures :
                        IsFeatureDescriptorFp16(m.InputFeatures[k])})
          n == First({k \in DOMAIN graph.node : CastNodeThrows(graph.node[k])})
          t == First({k \in DOMAIN graph.initializer :
                        InitializerThrows(graph.initializer[k])})
          o == First({k \in DOMAIN m.OutputFeatures :
                        IsFeatureDescriptorFp16(m.OutputFeatures[k])})
      IN  IF i # 0 THEN Unsupported("input", m.InputFeatures[i].Name)
          ELSE IF n # 0 THEN Unsupported("Cast Op", graph.node[n].name)
          ELSE IF t # 0 THEN Unsupported("initializer", graph.initializer[t].name)
          ELSE IF o # 0 THEN Unsupported("output", m.OutputFeatures[o].Name)
          ELSE S_OK

\* p_model_proto->get()->graph() with get() == nullptr (a wrapper whose
\* structure was detached) is undefined behaviour: the read through the null
\* pointer may fault, or the call may go on with whatever it read.
AccessViolation == [hr |-> "access violation", thrown |-> TRUE, kind |-> "none", name |-> <<>>]

EnsureOutcomes(m, proto, float16) ==
    IF proto = NULL /\ ~float16
    THEN {AccessViolation, S_OK} \cup
         {EnsureModelDeviceCompatibility(m, EmptyModelProto, float16)}
    ELSE {EnsureModelDeviceCompatibility(m, proto, float16)}

EnsureModelDeviceCompatibilityCall ==
    /\ compat = NotCalled
    /\ compat' \in EnsureOutcomes(model, p_model_proto, is_float16_supported)
    /\ UNCHANGED <<model, p_model_proto, is_float16_supported, infoVars, onceVars, ownVars, bindVars>>

\* The models the check is run on.
MaxElements == 2

FeatureNames == {<<1>>, <<1, 0, 2>>, <<4>>}
NodeNames == {<<2>>, <<2, 0, 1>>, <<5>>}
InitializerNames == {<<3>>, <<3, 0, 3>>, <<6>>}

Descriptors ==
    [Name : FeatureNames, iface : {"image", "tensor"}, TensorKind : {"Float", "Float16"}]
    \cup [Name : FeatureNames, iface : {"map"}, TensorKind : {"Undefined"}]

Attributes == [name : {"to", "saturate"}, i : {1, TensorProto_DataType_FLOAT16}]
AttributeLists ==
    {<<>>,
     <<[name |-> "to", i |-> 1]>>,
     <<[name |-> "to", i |-> TensorProto_DataType_FLOAT16]>>,
     <<[name |-> "saturate", i |-> TensorProto_DataType_FLOAT16]>>,
     <<[name |-> "saturate", i |-> 1], [name |-> "to", i |-> TensorProto_DataType_FLOAT16]>>}
Nodes ==
    [name : NodeNames, op_type : {"Cast", "Relu"}, domain : {"", "com.microsoft"},
     attribute : AttributeLists]
Initializers == [name : InitializerNames, data_type : {1, TensorProto_DataType_FLOAT16}]

SeqOfLen(S, n) == [1..n -> S]

CompatIdle ==
    /\ model = [InputFeatures |-> <<>>, OutputFeatures |-> <<>>]
    /\ is_float16_supported = TRUE
    /\ compat = NotCalled
InfoIdle == model_info = NULL
NoCall ==
    [op |-> "none", path |-> "", wrapper |-> 0, session |-> 0, hr |-> "none",
     thrown |-> FALSE, out |-> 0, value |-> 0, after_detach |-> FALSE]
BindIdle ==
    /\ binding_ = NULL
    /\ outputs_weak_ = <<>>
    /\ passed = <<>>
    /\ bind_last = "none"
OwnIdle ==
    /\ structures = <<>>
    /\ wrappers = <<>>
    /\ sessions = <<>>
    /\ caller = {}
    /\ last = NoCall
    /\ released = {}
    /\ ok_loads = <<>>
    /\ crashed = FALSE
OnceIdle ==
    /\ schema_override_once_flag = "idle"
    /\ pc = <<>>
    /\ calls = <<>>
    /\ executions = 0
    /\ returned = <<>>

InitCompat ==
    /\ \E ni, nn, nt, no \in 0..MaxElements :
         /\ ni + nn + nt + no <= MaxElements
         /\ \E inputs \in SeqOfLen(Descriptors, ni), outputs \in SeqOfLen(Descriptors, no),
               nodes \in SeqOfLen(Nodes, nn), inits \in SeqOfLen(Initializers, nt) :
              /\ model = [InputFeatures |-> inputs, OutputFeatures |-> outputs]
              /\ p_model_proto \in
                   {[EmptyModelProto EXCEPT !.has_graph = TRUE,
                       !.graph = [EmptyGraph EXCEPT !.node = nodes, !.initializer = inits]]}
                   \cup (IF nn + nt = 0 THEN {NULL} ELSE {})
    /\ is_float16_supported \in BOOLEAN
    /\ compat = NotCalled
    /\ InfoIdle
    /\ OnceIdle
    /\ OwnIdle
    /\ BindIdle

NextCompat == EnsureModelDeviceCompatibilityCall

SpecCompat == InitCompat /\ [][NextCompat]_vars

(***************************************************************************)
(* Claims about EnsureModelDeviceCompatibility (checked under SpecCompat)  *)
(***************************************************************************)
\* What the claims call half-precision elements, stated on the model's data
\* and not through the code's predicates.
HalfFeature(d) == d.TensorKind = "Float16"
HalfInitializer(t) == t.data_type = 10
CastToHalf(node) ==
    /\ node.op_type = "Cast"
    /\ \E j \in DOMAIN node.attribute :
         node.attribute[j].name = "to" /\ node.attribute[j].i = 10
DefaultDomainCastToHalf(node) == CastToHalf(node) /\ node.domain = ""

\* The name as the message prints it: the characters before the first NUL.
Printed(name) ==
    LET nuls == {k \in DOMAIN name : name[k] = 0}
    IN  IF nuls = {} THEN name
        ELSE SubSeq(name, 1, (CHOOSE k \in nuls : \A j \in nuls : k <= j) - 1)

SomeHalfFeature(features) == \E k \in DOMAIN features : HalfFeature(features[k])
SomeHalfInitializer(graph) ==
    \E k \in DOMAIN graph.initializer : HalfInitializer(graph.initializer[k])
SomeCastToHalf(graph) == \E k \in DOMAIN graph.node : CastToHalf(graph.node[k])
SomeDefaultDomainCastToHalf(graph) ==
    \E k \in DOMAIN graph.node : DefaultDomainCastToHalf(graph.node[k])

Checked == compat # NotCalled /\ p_model_proto # NULL

HasHalfElement ==
    \/ SomeHalfFeature(model.InputFeatures)
    \/ SomeDefaultDomainCastToHalf(p_model_proto.graph)
    \/ SomeHalfInitializer(p_model_proto.graph)
    \/ SomeHalfFeature(model.OutputFeatures)

\* C1: the check fails with DXGI_ERROR_UNSUPPORTED exactly when
\* is_float16_supported is false and some input feature, default-domain Cast
\* 'to' attribute, initializer or output feature is half-precision; in every
\* other case (all models when is_float16_supported is true) it returns S_OK.
C1_FailsExactlyOnHalfPrecision ==
    Checked =>
      IF ~is_float16_supported /\ HasHalfElement
      THEN compat.hr = "DXGI_ERROR_UNSUPPORTED" /\ compat.thrown
      ELSE compat = S_OK

C1_Witness ==
    /\ Checked
    /\ ~is_float16_supported
    /\ SomeHalfFeature(model.InputFeatures)
    /\ compat.hr = "DXGI_ERROR_UNSUPPORTED"

\* C7: with is_float16_supported false and no other half-precision element,
\* a Cast node whose 'to' attribute is half-precision fails the check when
\* its domain is empty and does not when its domain is not empty.
NoOtherHalfElement ==
    /\ ~SomeHalfFeature(model.InputFeatures)
    /\ ~SomeHalfInitializer(p_model_proto.graph)
    /\ ~SomeHalfFeature(model.OutputFeatures)

C7_CastFailsOnlyInDefaultDomain ==
    (Checked /\ ~is_float16_supported /\ NoOtherHalfElement
       /\ SomeCastToHalf(p_model_proto.graph)) =>
      IF SomeDefaultDomainCastToHalf(p_model_proto.graph)
      THEN compat.hr = "DXGI_ERROR_UNSUPPORTED" /\ compat.kind = "Cast Op"
      ELSE compat = S_OK

C7_Witness ==
    /\ Checked /\ ~is_float16_supported /\ NoOtherHalfElement
    /\ SomeCastToHalf(p_model_proto.graph)
    /\ ~SomeDefaultDomainCastToHalf(p_model_proto.graph)
    /\ compat = S_OK

\* Some half-precision element of the reported kind has the reported name:
\* as it is, or as the message prints it.
Reported(name, printed) == compat.name = (IF printed THEN Printed(name) ELSE name)

OffenderReported(printed) ==
    \/ /\ compat.kind = "input"
       /\ \E k \in DOMAIN model.InputFeatures :
            /\ HalfFeature(model.InputFeatures[k])
            /\ Reported(model.InputFeatures[k].Name, printed)
    \/ /\ compat.kind = "Cast Op"
       /\ \E k \in DOMAIN p_model_proto.graph.node :
            /\ DefaultDomainCastToHalf(p_model_proto.graph.node[k])
            /\ Reported(p_model_proto.graph.node[k].name, printed)
    \/ /\ compat.kind = "initializer"
       /\ \E k \in DOMAIN p_model_proto.graph.initializer :
            /\ HalfInitializer(p_model_proto.graph.initializer[k])
            /\ Reported(p_model_proto.graph.initializer[k].name, printed)
    \/ /\ compat.kind = "output"
       /\ \E k \in DOMAIN model.OutputFeatures :
            /\ HalfFeature(model.OutputFeatures[k])
            /\ Reported(model.OutputFeatures[k].Name, printed)

\* C8: every failure reports the name of the element that triggered it: the
\* reported name is the name of an input feature, Cast node, initializer or
\* output feature of the model that is itself half-precision, and the
\* reported kind matches that element.
C8_ReportsOffendingElementName ==
    (Checked /\ compat.thrown) => OffenderReported(FALSE)

\* What does hold of a failure's report: the kind is that of a half-precision
\* element whose name, cut at its first NUL character, is the reported name.
C8_ReportsNameAsPrinted ==
    (Checked /\ compat.thrown) => OffenderReported(TRUE)

\* C14: with is_float16_supported false and several half-precision elements
\* in the model, the check fails on the first of them in the scan order
\* (input features, then default-domain Cast nodes in node order, then
\* initializers in graph order, then output features) and reports that one,
\* its kind and its name as the message prints it; no later element decides
\* the report.
Tagged(kind, names, half) ==
    [k \in DOMAIN names |-> [kind |-> kind, name |-> names[k], half |-> half[k]]]

ScanOrder ==
    LET graph == p_model_proto.graph
    IN  Tagged("input",
               [k \in DOMAIN model.InputFeatures |-> model.InputFeatures[k].Name],
               [k \in DOMAIN model.InputFeatures |-> HalfFeature(model.InputFeatures[k])])
        \o Tagged("Cast Op",
                  [k \in DOMAIN graph.node |-> graph.node[k].name],
                  [k \in DOMAIN graph.node |-> DefaultDomainCastToHalf(graph.node[k])])
        \o Tagged("initializer",
                  [k \in DOMAIN graph.initializer |-> graph.initializer[k].name],
                  [k \in DOMAIN graph.initializer |-> HalfInitializer(graph.initializer[k])])
        \o Tagged("output",
                  [k \in DOMAIN model.OutputFeatures |-> model.OutputFeatures[k].Name],
                  [k \in DOMAIN model.OutputFeatures |-> HalfFeature(model.OutputFeatures[k])])

IsOffender(element) == element.half
Offenders == SelectSeq(ScanOrder, IsOffender)

NumThreads == 3
MaxCalls == 2
Threads == 1..NumThreads

\* A mutant of CallOnce: the callable is run by every call, the flag unread.
CallOnce_NoGate(flag) == "run"

\* std::call_once(flag, f): a call that finds the flag set returns at once, a
\* call that finds another call running f waits for it, any other call runs f.
CallOnce(flag) ==
    IF flag = "done" THEN "return"
    ELSE IF flag = "running" THEN "wait"
    ELSE "run"

\* A thread enters OverrideSchemaInferenceFunctions.
Enter(t) ==
    /\ pc[t] = "idle"
    /\ calls[t] < MaxCalls
    /\ calls' = [calls EXCEPT ![t] = @ + 1]
    /\ pc' = [pc EXCEPT ![t] = "call_once"]
    /\ UNCHANGED <<schema_override_once_flag, executions, returned, compatVars, infoVars, ownVars, bindVars>>

\* std::call_once reads the flag and decides.
CallOnceStep(t) ==
    /\ pc[t] = "call_once"
    /\ CallOnce(schema_override_once_flag) # "wait"
    /\ IF CallOnce(schema_override_once_flag) = "run"
       THEN /\ schema_override_once_flag' = "running"
            /\ pc' = [pc EXCEPT ![t] = "callable"]
       ELSE /\ pc' = [pc EXCEPT ![t] = "return"]
            /\ UNCHANGED schema_override_once_flag
    /\ UNCHANGED <<calls, executions, returned, compatVars, infoVars, ownVars, bindVars>>

\* The lambda: SchemaInferenceOverrider::OverrideSchemaInferenceFunctions()
\* runs and returns, and call_once sets the flag.
SchemaInferenceOverrider_OverrideSchemaInferenceFunctions(t) ==
    /\ pc[t] = "callable"
    /\ executions' = executions + 1
    /\ schema_override_once_flag' = "done"
    /\ pc' = [pc EXCEPT ![t] = "return"]
    /\ UNCHANGED <<calls, returned, compatVars, infoVars, ownVars, bindVars>>

\* return S_OK;
ReturnS_OK(t) ==
    /\ pc[t] = "return"
    /\ returned' = [returned EXCEPT ![t] = Append(@, "S_OK")]
    /\ pc' = [pc EXCEPT ![t] = "idle"]
    /\ UNCHANGED <<schema_override_once_flag, calls, executions, compatVars, infoVars, ownVars, bindVars>>

InitOnce ==
    /\ schema_override_once_flag = "idle"
    /\ pc = [t \in Threads |-> "idle"]
    /\ calls = [t \in Threads |-> 0]
    /\ executions = 0
    /\ returned = [t \in Threads |-> <<>>]
    /\ CompatIdle
    /\ p_model_proto = NULL
    /\ InfoIdle
    /\ OwnIdle
    /\ BindIdle

NextOnce ==
    \E t \in Threads :
        \/ Enter(t)
        \/ CallOnceStep(t)
        \/ SchemaInferenceOverrider_OverrideSchemaInferenceFunctions(t)
        \/ ReturnS_OK(t)

SpecOnce == InitOnce /\ [][NextOnce]_vars

\* C2: however many threads call OverrideSchemaInferenceFunctions, however
\* often and however interleaved, the override logic runs exactly once (never
\* twice, and once before any call returns), and every call returns S_OK.
C2_OverrideRunsExactlyOnce ==
    /\ executions <= 1
    /\ \A t \in Threads :
         /\ returned[t] # <<>> => executions = 1
         /\ \A k \in DOMAIN returned[t] : returned[t][k] = "S_OK"

C2_Witness ==
    /\ \A t \in Threads : Len(returned[t]) = MaxCalls
    /\ executions = 1

(***************************************************************************)
(* class ModelInfo                                                         *)
(***************************************************************************)
\* The graph inputs and outputs are held as pointers into the graph's
\* repeated fields: here, as positions in graph.input() and graph.output().
Positions(seq) == [k \in DOMAIN seq |-> k]

\* GetInitializers: initializer.name().c_str() of every initializer.
GetInitializers(model_proto) ==
    [k \in DOMAIN model_proto.graph.initializer |->
        model_proto.graph.initializer[k].name]

\* A mutant of IsInitializer: no input is taken for an initializer.
IsInitializer_Never(initializers, input) == FALSE

\* std::find_if over the initializer names with std::strcmp(...) == 0.
IsInitializer(initializers, input) ==
    \E k \in DOMAIN initializers : StrcmpEqual(initializers[k], input.name.val)

GetInputsWithoutInitializers(model_proto) ==
    LET initializers == GetInitializers(model_proto)
        inputs == model_proto.graph.input
    IN  SelectSeq(Positions(inputs),
                  LAMBDA i : /\ inputs[i].name.has /\ inputs[i].type.has
                             /\ ~IsInitializer(initializers, inputs[i]))

GetOutputs(model_proto) ==
    LET outputs == model_proto.graph.output
    IN  SelectSeq(Positions(outputs),
                  LAMBDA i : outputs[i].name.has /\ outputs[i].type.has)

\* WinML::FeatureDescriptorFactory::CreateDescriptorsFromValueInfoProtos:
\* one descriptor per value info handed in, in order, built from the value
\* info and the metadata the factory was constructed with.
CreateDescriptorsFromValueInfoProtos(metadata, value_infos) ==
    [k \in DOMAIN value_infos |-> [value_info |-> value_infos[k], metadata |-> metadata]]

\* A mutant of MetadataMap: an entry never replaces an earlier one of its key
\* (std::unordered_map::insert in place of operator[]).
RECURSIVE MetadataMap_FirstWins(_)
MetadataMap_FirstWins(props) ==
    IF props = <<>> THEN <<>>
    ELSE LET rest == MetadataMap_FirstWins(Tail(props))
             prop == Head(props)
         IN  [k \in DOMAIN rest \cup {prop.key} |->
                 IF k = prop.key THEN prop.value ELSE rest[k]]

\* for (auto& prop : metadata_props()) model_metadata_[prop.key()] = prop.value();
RECURSIVE MetadataMap(_)
MetadataMap(props) ==
    IF props = <<>> THEN <<>>
    ELSE LET before == MetadataMap(SubSeq(props, 1, Len(props) - 1))
             prop == props[Len(props)]
         IN  [k \in DOMAIN before \cup {prop.key} |->
                 IF k = prop.key THEN prop.value ELSE before[k]]

\* has_x ? x() : default
ValueOr(field, default) == IF field.has THEN field.val ELSE default

GraphName(model_proto) ==
    IF model_proto.has_graph /\ model_proto.graph.name.has
    THEN model_proto.graph.name.val
    ELSE ""

\* ModelInfo::Initialize
Initialize(model_proto) ==
    LET model_metadata_ == MetadataMap(model_proto.metadata_props)
        inputs == GetInputsWithoutInitializers(model_proto)
        outputs == GetOutputs(model_proto)
    IN  [model_metadata_ |-> model_metadata_,
         input_features_ |->
            CreateDescriptorsFromValueInfoProtos(model_metadata_,
                [k \in DOMAIN inputs |-> model_proto.graph.input[inputs[k]]]),
         output_features_ |->
            CreateDescriptorsFromValueInfoProtos(model_metadata_,
                [k \in DOMAIN outputs |-> model_proto.graph.output[outputs[k]]]),
         author_ |-> ValueOr(model_proto.producer_name, ""),
         domain_ |-> ValueOr(model_proto.domain, ""),
         name_ |-> GraphName(model_proto),
         description_ |-> ValueOr(model_proto.doc_string, ""),
         version_ |-> ValueOr(model_proto.model_version, 0)]

\* WinMLAdapter::CreateModelInfo(model_proto, model_info): the ModelInfo is
\* built from model_proto->get(); with get() == nullptr the constructor reads
\* through a null pointer.
ModelInfoFault == [fault |-> "access violation"]

CreateModelInfo ==
    /\ model_info = NULL
    /\ model_info' = IF p_model_proto = NULL THEN ModelInfoFault
                     ELSE Initialize(p_model_proto)
    /\ UNCHANGED <<compatVars, onceVars, ownVars, bindVars>>

\* The model descriptors ModelInfo is built from.
MaxGraphElements == 3
MaxProps == 2

InputValueInfos ==
    [name : {Unset(<<>>), Set(<<1>>), Set(<<2>>), Set(<<1, 0, 2>>)},
     type : {Unset(""), Set("tensor(float)")}]
OutputValueInfos ==
    [name : {Unset(<<>>), Set(<<4>>)}, type : {Unset(""), Set("tensor(float)")}]
InfoInitializers == [name : {<<1>>, <<1, 0, 3>>}, data_type : {1}]

OptionalStrings(v) == {Unset(""), Set(""), Set(v)}
Props == [key : {"key1", "key2"}, value : {"v1", "v2"}]

\* Descriptors that differ in their graph's inputs, initializers and outputs.
InitGraphs ==
    \E ni, nt, no \in 0..MaxGraphElements :
      /\ ni + nt + no <= MaxGraphElements
      /\ \E inputs \in SeqOfLen(InputValueInfos, ni),
            inits \in SeqOfLen(InfoInitializers, nt),
            outputs \in SeqOfLen(OutputValueInfos, no) :
           p_model_proto =
             [EmptyModelProto EXCEPT !.has_graph = TRUE,
                !.graph = [EmptyGraph EXCEPT !.input = inputs, !.initializer = inits,
                                             !.output = outputs]]

\* Descriptors that differ in their model-level fields and metadata.
InitFields ==
    \E producer_name \in OptionalStrings("author"), domain \in OptionalStrings("ai.onnx"),
       doc_string \in OptionalStrings("doc"), model_version \in {Unset(0), Set(0), Set(7)},
       graph_name \in OptionalStrings("graph") \cup {NULL},
       np \in 0..MaxProps :
      \E props \in SeqOfLen(Props, np) :
        p_model_proto =
          [EmptyModelProto EXCEPT
             !.producer_name = producer_name, !.domain = domain,
             !.doc_string = doc_string, !.model_version = model_version,
             !.metadata_props = props,
             !.has_graph = (graph_name # NULL),
             !.graph = IF graph_name = NULL THEN EmptyGraph
                       ELSE [EmptyGraph EXCEPT !.name = graph_name]]

InitInfo ==
    /\ (InitGraphs \/ InitFields \/ p_model_proto = NULL)
    /\ model_info = NULL
    /\ CompatIdle
    /\ OnceIdle
    /\ OwnIdle
    /\ BindIdle

NextInfo == CreateModelInfo

SpecInfo == InitInfo /\ [][NextInfo]_vars

(***************************************************************************)
(* Claims about ModelInfo (checked under SpecInfo)                         *)
(***************************************************************************)
Built == model_info # NULL /\ model_info # ModelInfoFault

\* The elements of seq at the positions in keep, in the order of seq.
At(seq, keep) ==
    [k \in 1..Cardinality(keep) |->
        seq[CHOOSE i \in keep : Cardinality({j \in keep : j < i}) = k - 1]]

ValueInfosOf(features) == [k \in DOMAIN features |-> features[k].value_info]

Declared(value_info) == value_info.name.has /\ value_info.type.has

NamedByAnInitializer(graph, value_info) ==
    /\ value_info.name.has
    /\ \E k \in DOMAIN graph.initializer :
         graph.initializer[k].name = value_info.name.val

OutputFeaturesAsClaimed ==
    LET graph == p_model_proto.graph
    IN  ValueInfosOf(model_info.output_features_) =
          At(graph.output, {i \in DOMAIN graph.output : Declared(graph.output[i])})

\* C5 as stated: the input features are exactly the graph inputs that no
\* graph initializer names, the output features exactly the graph outputs
\* that declare a name and a type, both in the graph's order.
C5_InputsAreTheNonInitializers ==
    Built =>
      LET graph == p_model_proto.graph
      IN  /\ ValueInfosOf(model_info.input_features_) =
               At(graph.input,
                  {i \in DOMAIN graph.input : ~NamedByAnInitializer(graph, graph.input[i])})
          /\ OutputFeaturesAsClaimed

\* C5 as amended: the input features are exactly the graph inputs that
\* declare both a name and a type and whose name, read up to its first NUL
\* character, equals no initializer's name read the same way; the output
\* features are exactly the graph outputs that declare a name and a type;
\* both in the graph's order.
SameCName(a, b) ==
    LET cut(x) == IF \E k \in DOMAIN x : x[k] = 0
                  THEN SubSeq(x, 1, (CHOOSE k \in DOMAIN x :
                                        x[k] = 0 /\ \A j \in 1..(k - 1) : x[j] # 0) - 1)
                  ELSE x
    IN  cut(a) = cut(b)

C5_InputsDeclaredAndNotInitializers ==
    Built =>
      LET graph == p_model_proto.graph
      IN  /\ ValueInfosOf(model_info.input_features_) =
               At(graph.input,
                  {i \in DOMAIN graph.input :
                      /\ Declared(graph.input[i])
                      /\ \A k \in DOMAIN graph.initializer :
                           ~SameCName(graph.initializer[k].name, graph.input[i].name.val)})
          /\ OutputFeaturesAsClaimed

\* Two declared inputs of which the first is an initializer and the second is
\* not: the second alone is an input feature.
C5_Witness ==
    /\ Built
    /\ Len(p_model_proto.graph.input) = 2
    /\ Declared(p_model_proto.graph.input[1])
    /\ NamedByAnInitializer(p_model_proto.graph, p_model_proto.graph.input[1])
    /\ ValueInfosOf(model_info.input_features_) = <<p_model_proto.graph.input[2]>>

\* C9 as stated: author, domain, name, description and version are the
\* descriptor's declared values, or "" (0 for version) where undeclared, and
\* the metadata mapping holds exactly the declared key/value entries.
FieldsAsClaimed ==
    /\ model_info.author_ =
         IF p_model_proto.producer_name.has THEN p_model_proto.producer_name.val ELSE ""
    /\ model_info.domain_ = IF p_model_proto.domain.has THEN p_model_proto.domain.val ELSE ""
    /\ model_info.name_ =
         IF p_model_proto.has_graph /\ p_model_proto.graph.name.has
         THEN p_model_proto.graph.name.val ELSE ""
    /\ model_info.description_ =
         IF p_model_proto.doc_string.has THEN p_model_proto.doc_string.val ELSE ""
    /\ model_info.version_ =
         IF p_model_proto.model_version.has THEN p_model_proto.model_version.val ELSE 0

EntriesOf(map) == {<<k, map[k]>> : k \in DOMAIN map}

C9_MetadataIsEveryDeclaredEntry ==
    Built =>
      /\ FieldsAsClaimed
      /\ EntriesOf(model_info.model_metadata_) =
           {<<p_model_proto.metadata_props[i].key, p_model_proto.metadata_props[i].value>> :
               i \in DOMAIN p_model_proto.metadata_props}

\* C9 as amended: the same fields, and the metadata mapping has one entry per
\* distinct key of the descriptor's metadata entries, holding the value of
\* the last entry with that key.
C9_MetadataIsLastEntryPerKey ==
    Built =>
      LET props == p_model_proto.metadata_props
      IN  /\ FieldsAsClaimed
          /\ DOMAIN model_info.model_metadata_ = {props[i].key : i \in DOMAIN props}
          /\ \A i \in DOMAIN props :
               (\A j \in DOMAIN props : j > i => props[j].key # props[i].key)
                 => model_info.model_metadata_[props[i].key] = props[i].value

\* A key declared twice with different values, an author declared and a
\* description undeclared.
C9_Witness ==
    /\ Built
    /\ Len(p_model_proto.metadata_props) = 2
    /\ p_model_proto.metadata_props[1].key = p_model_proto.metadata_props[2].key
    /\ p_model_proto.metadata_props[1].value # p_model_proto.metadata_props[2].value
    /\ model_info.author_ = "author"
    /\ ~p_model_proto.doc_string.has /\ model_info.description_ = ""
    /\ model_info.version_ = 7

(***************************************************************************)
(* class ModelProto, WinMLAdapter::CreateModelProto and                    *)
(* InferenceSession::LoadModel                                             *)
(***************************************************************************)
MaxWrappers == 2
MaxStructures == 3
NumSessions == 2

\* The files a path may name: none, one that cannot be opened for reading,
\* one whose bytes are no serialized model, and a serialized model.
FileSystem ==
    [path \in {"missing.onnx", "locked.onnx", "garbage.onnx", "model.onnx"} |->
        CASE path = "missing.onnx" -> "missing"
          [] path = "locked.onnx" -> "unopenable"
          [] path = "garbage.onnx" -> "garbage"
          [] OTHER -> "model"]
Paths == DOMAIN FileSystem

\* _set_errno(0); _sopen_s(&file_descriptor, path, O_RDONLY | ...); _get_errno(&err)
Sopen(path) ==
    CASE FileSystem[path] = "missing" -> [file_descriptor |-> -1, err |-> "ENOENT"]
      [] FileSystem[path] = "unopenable" -> [file_descriptor |-> -1, err |-> "EACCES"]
      [] OTHER -> [file_descriptor |-> 3, err |-> "0"]

\* A mutant of OpenFailure: the descriptor is tested before errno.
OpenFailure_DescriptorFirst(opened) ==
    IF 0 > opened.file_descriptor THEN "E_FAIL"
    ELSE IF opened.err = "ENOENT" THEN "HRESULT_FROM_WIN32(ERROR_FILE_NOT_FOUND)"
    ELSE "none"

\* The two THROW_HR_IF_MSG after the open, in order; "none" when neither throws.
OpenFailure(opened) ==
    IF opened.err = "ENOENT" THEN "HRESULT_FROM_WIN32(ERROR_FILE_NOT_FOUND)"
    ELSE IF 0 > opened.file_descriptor THEN "E_FAIL"
    ELSE "none"

\* model_proto_inner->ParseFromZeroCopyStream(&stream)
ParseFromZeroCopyStream(path) == FileSystem[path] = "model"

Call(op) == [NoCall EXCEPT !.op = op]
Throw(call, hr) == [call EXCEPT !.hr = hr, !.thrown = TRUE]

\* new onnx::ModelProto: the structure's identity is its position.
\* copied_from records, for the claims, the structure a duplicate was made of.
New(content) ==
    Append(structures, [content |-> content, freed |-> FALSE, copied_from |-> 0])

\* CreateModelProto(const char* path, IModelProto** model_proto)
CreateModelProtoFromPath(path) ==
    LET call == [Call("CreateModelProto(path)") EXCEPT !.path = path]
        failure == OpenFailure(Sopen(path))
    IN  /\ ~crashed
        /\ Len(wrappers) < MaxWrappers
        /\ Len(structures) < MaxStructures
        /\ IF failure # "none"
           THEN /\ last' = Throw(call, failure)
                /\ UNCHANGED <<structures, wrappers>>
           ELSE /\ structures' = New(path)
                /\ IF ParseFromZeroCopyStream(path)
                   THEN /\ wrappers' = Append(wrappers, Len(structures'))
                        /\ last' = [call EXCEPT !.hr = "S_OK", !.out = Len(wrappers')]
                   ELSE \* the structure is not deleted before the throw
                        /\ last' = Throw(call, "E_INVALIDARG")
                        /\ UNCHANGED wrappers
        /\ UNCHANGED <<sessions, caller, released, ok_loads, crashed,
                       compatVars, infoVars, onceVars, bindVars>>

\* CreateModelProto(IModelProto* model_proto_in, IModelProto** model_proto):
\* new onnx::ModelProto(*model_proto_in->get()); with get() == nullptr the
\* copy constructor reads through a null reference.
\* A mutant of model_proto_inner: the new wrapper is given the source's own
\* structure.
model_proto_inner_Shared(source) == source

\* auto model_proto_inner = new onnx::ModelProto(*model_proto_in->get()): the
\* address of the duplicate, which is the structure allocated last.
model_proto_inner(source) == Len(structures) + 1

CreateModelProtoFromModelProto(w) ==
    LET call == [Call("CreateModelProto(model_proto)") EXCEPT !.wrapper = w]
    IN  /\ ~crashed
        /\ Len(wrappers) < MaxWrappers
        /\ Len(structures) < MaxStructures
        /\ IF wrappers[w] = 0
           THEN /\ crashed' = TRUE
                /\ last' = Throw(call, "access violation")
                /\ UNCHANGED <<structures, wrappers>>
           ELSE /\ structures' = [New(structures[wrappers[w]].content)
                                    EXCEPT ![Len(structures) + 1].copied_from = wrappers[w]]
                /\ wrappers' = Append(wrappers, model_proto_inner(wrappers[w]))
                /\ last' = [call EXCEPT !.hr = "S_OK", !.out = Len(wrappers')]
                /\ UNCHANGED crashed
        /\ UNCHANGED <<sessions, caller, released, ok_loads,
                       compatVars, infoVars, onceVars, bindVars>>

\* ModelProto::get(): model_proto_.get()
Get(w) ==
    /\ ~crashed
    /\ last' = [Call("get") EXCEPT !.wrapper = w, !.value = wrappers[w],
                                   !.after_detach = (w \in released)]
    /\ UNCHANGED <<structures, wrappers, sessions, caller, released, ok_loads, crashed,
                   compatVars, infoVars, onceVars, bindVars>>

\* A mutant of Released: detach() returns model_proto_.get() and keeps the pointer.
Released_Kept(model_proto_) == model_proto_

\* What model_proto_.release() leaves in the unique_ptr.
Released(model_proto_) == 0

\* ModelProto::detach(), called by the holder of the wrapper.
Detach(w) ==
    /\ ~crashed
    /\ wrappers' = [wrappers EXCEPT ![w] = Released(@)]
    /\ caller' = caller \cup ({wrappers[w]} \ {0})
    /\ released' = released \cup {w}
    /\ last' = [Call("detach") EXCEPT !.wrapper = w, !.value = wrappers[w],
                                      !.after_detach = (w \in released)]
    /\ UNCHANGED <<structures, sessions, ok_loads, crashed, compatVars, infoVars, onceVars, bindVars>>

\* onnxruntime::InferenceSession::Load(std::unique_ptr<ModelProto>): the
\* statuses the engine may answer with. A session loads at most once; a
\* model may be refused; a null model is refused or read through.
InferenceSession_Load(session, p_model_proto_) ==
    IF session.is_model_loaded THEN {"MODEL_LOADED"}
    ELSE IF p_model_proto_ = 0 THEN {"INVALID_ARGUMENT", "access violation"}
    ELSE {"OK", "INVALID_GRAPH"}

\* A mutant of ThrowIfError: the status is dropped.
ThrowIfError_Dropped(call, status) == [call EXCEPT !.hr = "S_OK"]

\* ORT_THROW_IF_ERROR(status); return S_OK;
ThrowIfError(call, status) ==
    IF status = "OK" THEN [call EXCEPT !.hr = "S_OK"] ELSE Throw(call, status)

\* InferenceSession::LoadModel(IModelProto* model_proto)
LoadModel(s, w) ==
    LET model_proto_ptr == wrappers[w]
        call == [Call("LoadModel") EXCEPT !.wrapper = w, !.session = s,
                                          !.value = model_proto_ptr,
                                          !.after_detach = (w \in released)]
    IN  /\ ~crashed
        /\ wrappers' = [wrappers EXCEPT ![w] = Released(@)]
        /\ released' = released \cup {w}
        /\ \E status \in InferenceSession_Load(sessions[s], model_proto_ptr) :
             /\ crashed' = (status = "access violation")
             /\ last' = ThrowIfError(call, status)
             /\ ok_loads' = [ok_loads EXCEPT ![s] = IF last'.thrown THEN @ ELSE @ + 1]
             /\ IF status = "OK"
                THEN /\ sessions' = [sessions EXCEPT ![s] =
                                       [is_model_loaded |-> TRUE, model_ |-> model_proto_ptr]]
                     /\ UNCHANGED structures
                ELSE \* the unique_ptr the engine was given dies with the call
                     /\ structures' = IF model_proto_ptr = 0 THEN structures
                                      ELSE [structures EXCEPT ![model_proto_ptr].freed = TRUE]
                     /\ UNCHANGED sessions
        /\ UNCHANGED <<caller, compatVars, infoVars, onceVars, bindVars>>

\* onnxruntime::InferenceSession::Run(run_options, io_binding): the statuses
\* the engine may answer with; a session that holds no model cannot run.
InferenceSession_Run(session) ==
    IF session.is_model_loaded THEN {"OK", "FAIL"} ELSE {"FAIL"}

\* InferenceSession::Run(run_options, io_binding)
Run(s) ==
    /\ ~crashed
    /\ \E status \in InferenceSession_Run(sessions[s]) :
         last' = ThrowIfError([Call("Run") EXCEPT !.session = s], status)
    /\ UNCHANGED <<structures, wrappers, sessions, caller, released, ok_loads, crashed,
                   compatVars, infoVars, onceVars, bindVars>>

\* InferenceSession::CopyOneInputAcrossDevices: return E_NOTIMPL;
CopyOneInputAcrossDevices(s) ==
    /\ ~crashed
    /\ last' = [Call("CopyOneInputAcrossDevices") EXCEPT !.session = s, !.hr = "E_NOTIMPL"]
    /\ UNCHANGED <<structures, wrappers, sessions, caller, released, ok_loads, crashed,
                   compatVars, infoVars, onceVars, bindVars>>

Sessions == 1..NumSessions

Init ==
    /\ structures = <<>>
    /\ wrappers = <<>>
    /\ sessions = [s \in Sessions |-> [is_model_loaded |-> FALSE, model_ |-> 0]]
    /\ caller = {}
    /\ last = NoCall
    /\ released = {}
    /\ ok_loads = [s \in Sessions |-> 0]
    /\ crashed = FALSE
    /\ CompatIdle
    /\ p_model_proto = NULL
    /\ InfoIdle
    /\ OnceIdle
    /\ BindIdle

Next ==
    \/ \E path \in Paths : CreateModelProtoFromPath(path)
    \/ \E w \in DOMAIN wrappers : CreateModelProtoFromModelProto(w)
    \/ \E w \in DOMAIN wrappers : Get(w)
    \/ \E w \in DOMAIN wrappers : Detach(w)
    \/ \E w \in DOMAIN wrappers, s \in Sessions : LoadModel(s, w)
    \/ \E s \in Sessions : Run(s)
    \/ \E s \in Sessions : CopyOneInputAcrossDevices(s)

Spec == Init /\ [][Next]_vars

(***************************************************************************)
(* Claims about ownership and loading (checked under Spec)                 *)
(***************************************************************************)
WrappersHolding(id) == {w \in DOMAIN wrappers : wrappers[w] = id}
SessionsHolding(id) == {s \in Sessions : sessions[s].model_ = id}

\* C3: a parsed structure is owned by at most one holder, a wrapper or a
\* session (and one that detach() handed to a caller by neither); once
\* detach() has been called on a wrapper the wrapper is empty, and every
\* later get() or detach() on it yields null.
C3_ExclusiveOwnership ==
    /\ \A id \in DOMAIN structures :
         /\ Cardinality(WrappersHolding(id)) + Cardinality(SessionsHolding(id)) <= 1
         /\ id \in caller => WrappersHolding(id) = {} /\ SessionsHolding(id) = {}
         /\ structures[id].freed => WrappersHolding(id) = {} /\ SessionsHolding(id) = {}
    /\ \A w \in released : wrappers[w] = 0
    /\ (last.op \in {"get", "detach"} /\ last.after_detach) => last.value = 0

\* A structure is loaded into a session through one wrapper, and a later
\* get() on that wrapper yields null.
C3_Witness ==
    /\ \E s \in Sessions : sessions[s].is_model_loaded /\ sessions[s].model_ # 0
    /\ last.op = "get" /\ last.after_detach /\ last.value = 0

\* C4: of the LoadModel calls made on one session at most one succeeds, and
\* no call made after a successful load replaces the loaded model.
C4_LoadsAtMostOnce ==
    /\ [](\A s \in Sessions : ok_loads[s] <= 1)
    /\ [][\A s \in Sessions : sessions[s].is_model_loaded => sessions'[s] = sessions[s]]_vars

\* A second LoadModel on a loaded session has failed.
C4_Witness ==
    /\ last.op = "LoadModel" /\ last.thrown /\ last.hr = "MODEL_LOADED"
    /\ last.value # 0
    /\ sessions[last.session].is_model_loaded
    /\ ok_loads[last.session] = 1

\* C6 as stated: CreateModelProto from a path fails with the not-found
\* condition when the path does not exist, with the parse-failure condition
\* when the file opens but does not deserialize, and otherwise succeeds with
\* a new owned descriptor; a failure returns no descriptor.
NewOwnedDescriptor ==
    /\ last.hr = "S_OK" /\ ~last.thrown
    /\ last.out = Len(wrappers)
    /\ wrappers[last.out] = Len(structures)
    /\ ~structures[wrappers[last.out]].freed
    /\ WrappersHolding(wrappers[last.out]) = {last.out}

FailsWith(hr) == last.thrown /\ last.hr = hr /\ last.out = 0

C6_NotFoundParseFailureOrSuccess ==
    last.op = "CreateModelProto(path)" =>
      CASE FileSystem[last.path] = "missing" ->
             FailsWith("HRESULT_FROM_WIN32(ERROR_FILE_NOT_FOUND)")
        [] FileSystem[last.path] = "garbage" -> FailsWith("E_INVALIDARG")
        [] OTHER -> NewOwnedDescriptor

\* C6 as amended: it fails with the not-found condition when the path does
\* not exist, with E_FAIL when the path exists but cannot be opened, with
\* the parse-failure condition (E_INVALIDARG) when the file opens but does
\* not deserialize, and otherwise succeeds with a new owned descriptor; a
\* failure returns no descriptor.
C6_NotFoundOpenOrParseFailureOrSuccess ==
    last.op = "CreateModelProto(path)" =>
      CASE FileSystem[last.path] = "missing" ->
             FailsWith("HRESULT_FROM_WIN32(ERROR_FILE_NOT_FOUND)")
        [] FileSystem[last.path] = "unopenable" -> FailsWith("E_FAIL")
        [] FileSystem[last.path] = "garbage" -> FailsWith("E_INVALIDARG")
        [] OTHER -> NewOwnedDescriptor

C6_Witness ==
    /\ last.op = "CreateModelProto(path)"
    /\ FileSystem[last.path] = "unopenable"
    /\ FailsWith("E_FAIL")
    /\ Len(wrappers) > 0

\* C12: CreateModelProto from an existing descriptor gives a new descriptor
\* that owns a duplicate of the source's structure, a structure of its own
\* with the same content, while the source still owns its structure; and a
\* later detach or LoadModel of one descriptor leaves the structure of every
\* other descriptor, so of the other one of the pair, owned by it, non-null
\* and unchanged.
OwnsDuplicate ==
    LET source == wrappers[last.wrapper]
        duplicate == wrappers[last.out]
    IN  /\ source # 0 /\ duplicate # 0 /\ source # duplicate
        /\ ~structures[source].freed /\ ~structures[duplicate].freed
        /\ structures[duplicate].content = structures[source].content
        /\ WrappersHolding(source) = {last.wrapper}
        /\ WrappersHolding(duplicate) = {last.out}
        /\ SessionsHolding(source) = {} /\ SessionsHolding(duplicate) = {}

OthersKept ==
    \A other \in DOMAIN wrappers :
      (last'.op \in {"detach", "LoadModel"} /\ last'.wrapper # other /\ wrappers[other] # 0) =>
        /\ wrappers'[other] = wrappers[other]
        /\ structures'[wrappers[other]] = structures[wrappers[other]]
        /\ ~structures'[wrappers[other]].freed

C12_CopyOwnsDeepDuplicate ==
    /\ []((last.op = "CreateModelProto(model_proto)" /\ ~last.thrown) => OwnsDuplicate)
    /\ [][OthersKept]_vars

\* The source of a duplicate was given to a session, which refused it and
\* freed it, and the duplicate is still owned by its descriptor.
C12_Witness ==
    /\ last.op = "LoadModel" /\ last.value # 0 /\ last.thrown
    /\ structures[last.value].freed
    /\ \E other \in DOMAIN wrappers :
         /\ wrappers[other] # 0
         /\ structures[wrappers[other]].copied_from = last.value
         /\ ~structures[wrappers[other]].freed
         /\ structures[wrappers[other]].content = structures[last.value].content

\* C13: LoadModel detaches the descriptor before it calls the engine's load:
\* the engine is given what the wrapper held, and the wrapper is empty after
\* the call whether the load succeeded or failed (a failed load does not
\* give the structure back); a later LoadModel with the same wrapper gives
\* the engine a null model.
EngineGivenWhatWrapperHeld ==
    last'.op = "LoadModel" =>
      /\ last'.value = wrappers[last'.wrapper]
      /\ wrappers'[last'.wrapper] = 0

C13_LoadModelDetachesBeforeLoad ==
    /\ [](last.op = "LoadModel" =>
            /\ wrappers[last.wrapper] = 0
            /\ (last.thrown /\ last.value # 0) => WrappersHolding(last.value) = {}
            /\ last.after_detach => last.value = 0)
    /\ [][EngineGivenWhatWrapperHeld]_vars

\* The one descriptor there is was given to a session whose load failed, and
\* a LoadModel made with it afterwards has given the engine a null model.
C13_Witness ==
    /\ Len(wrappers) = 1
    /\ \E id \in DOMAIN structures : structures[id].freed
    /\ caller = {}
    /\ last.op = "LoadModel" /\ last.wrapper = 1
    /\ last.after_detach /\ last.value = 0

\* C11: every failure of a public operation reaches the immediate caller as
\* the status code the operation returns: a call that did not succeed has
\* returned its status, it has not left the operation as an exception; and
\* the operation has been attempted once, with no retry or recovery.
Failed == last.hr \notin {"none", "S_OK"}

C11_FailuresAreReturnedStatusCodes == Failed => ~last.thrown

\* What does hold of a failure: it reaches the caller in the same call, as a
\* returned status or as an exception that carries the status, and it
\* returns no descriptor.
C11_FailuresReachTheCaller ==
    Failed => (last.out = 0 /\ (last.thrown <=> last.op # "CopyOneInputAcrossDevices"))

(***************************************************************************)
(* class IOBinding                                                         *)
(***************************************************************************)
OutputNames == {"out1", "out2", "out3"}
OrtValues == {"tensor1", "tensor2"}
nullptr == "nullptr"
\* OrtValue empty_value = {};
empty_value == "empty"

\* &(output_inner[i]): an address in the buffer the engine's vector of output
\* values holds at the time.
AddressOf(binding, i) == [buffer |-> binding.buffer, index |-> i]

\* The value an address points at; a pointer into a buffer the vector has
\* left behind, or past its end, points at nothing.
Deref(binding, pointer) ==
    IF pointer.buffer = binding.buffer /\ pointer.index \in DOMAIN binding.outputs_
    THEN binding.outputs_[pointer.index]
    ELSE "dangling"

\* onnxruntime::IOBinding::BindOutput(name, ml_value): the value replaces the
\* one bound to the name, or the name and the value are appended; appending
\* may move the values to a new buffer.
IOBinding_BindOutput(binding, name, ml_value) ==
    IF \E i \in DOMAIN binding.output_names_ : binding.output_names_[i] = name
    THEN LET i == CHOOSE i \in DOMAIN binding.output_names_ : binding.output_names_[i] = name
         IN  {[binding EXCEPT !.outputs_[i] = ml_value]}
    ELSE {[output_names_ |-> Append(binding.output_names_, name),
           outputs_ |-> Append(binding.outputs_, ml_value),
           buffer |-> b] : b \in {binding.buffer, binding.buffer + 1}}

\* A mutant of BoundValue: a null ort_value is passed on as it is.
BoundValue_NoMarker(ort_value) == ort_value

\* if (ort_value == nullptr) bind empty_value, else bind *ort_value
BoundValue(ort_value) == IF ort_value = nullptr THEN empty_value ELSE ort_value

\* IOBinding::BindOutput(name, ort_value); the engine may refuse the binding,
\* and ORT_THROW_IF_ERROR then throws.
BindOutput(name, ort_value) ==
    /\ \/ /\ binding_' \in IOBinding_BindOutput(binding_, name, BoundValue(ort_value))
          /\ passed' = [n \in DOMAIN passed \cup {name} |->
                           IF n = name THEN ort_value ELSE passed[n]]
          /\ bind_last' = "BindOutput"
       \/ /\ bind_last' = "BindOutput threw"
          /\ UNCHANGED <<binding_, passed>>
    /\ UNCHANGED <<outputs_weak_, compatVars, infoVars, onceVars, ownVars>>

\* A mutant of Cleared: outputs_weak_ is not cleared before it is filled.
Cleared_Not(outputs_weak) == outputs_weak

\* outputs_weak_.clear()
Cleared(outputs_weak) == <<>>

\* IOBinding::GetOutputs()
GetOutputsCall ==
    /\ outputs_weak_' = Cleared(outputs_weak_) \o
                          [i \in DOMAIN binding_.outputs_ |-> AddressOf(binding_, i)]
    /\ bind_last' = "GetOutputs"
    /\ UNCHANGED <<binding_, passed, compatVars, infoVars, onceVars, ownVars>>

\* IOBinding::GetOutputNames()
GetOutputNames ==
    /\ bind_last' = "GetOutputNames"
    /\ UNCHANGED <<binding_, outputs_weak_, passed, compatVars, infoVars, onceVars, ownVars>>

\* InferenceSession::NewIOBinding: a binding with nothing bound.
InitBinding ==
    /\ binding_ = [output_names_ |-> <<>>, outputs_ |-> <<>>, buffer |-> 0]
    /\ outputs_weak_ = <<>>
    /\ passed = <<>>
    /\ bind_last = "none"
    /\ CompatIdle
    /\ p_model_proto = NULL
    /\ InfoIdle
    /\ OnceIdle
    /\ OwnIdle

NextBinding ==
    \/ \E name \in OutputNames, ort_value \in OrtValues \cup {nullptr} :
         BindOutput(name, ort_value)
    \/ GetOutputsCall
    \/ GetOutputNames

SpecBinding == InitBinding /\ [][NextBinding]_vars

\* C10: what GetOutputs returns, after any BindOutput and GetOutputs calls,
\* is one slot per output bound in the engine's binding, in binding order,
\* each pointing at the binding's own value for that output, which is the
\* value last bound to it, or an empty value when that was the null marker;
\* nothing of an earlier GetOutputs is left in it.
C10_OneSlotPerBoundOutput ==
    bind_last = "GetOutputs" =>
      /\ Len(outputs_weak_) = Len(binding_.output_names_)
      /\ Len(outputs_weak_) = Cardinality(DOMAIN passed)
      /\ \A i \in DOMAIN outputs_weak_ :
           /\ outputs_weak_[i] = [buffer |-> binding_.buffer, index |-> i]
           /\ binding_.output_names_[i] \in DOMAIN passed
           /\ Deref(binding_, outputs_weak_[i]) =
                IF passed[binding_.output_names_[i]] = nullptr
                THEN "empty"
                ELSE passed[binding_.output_names_[i]]

\* Two outputs bound, the first with the null marker, fetched a second time
\* after the second binding.
C10_Witness ==
    /\ bind_last = "GetOutputs"
    /\ Len(binding_.output_names_) = 2
    /\ passed[binding_.output_names_[1]] = nullptr
    /\ passed[binding_.output_names_[2]] # nullptr
    /\ binding_.buffer = 1
    /\ Deref(binding_, outputs_weak_[1]) = "empty"

====
